---- MODULE Spec2Model ----
(***************************************************************************)
(* Model of the MCP tool-calling clients of this repository:               *)
(*   src/client_sse.py  MCPClientSSE: the push-channel (SSE) client, with  *)
(*                      its background event reader (handle_sse_events),   *)
(*                      call_tool, process_query and chat_loop;            *)
(*   src/client.py      MCPClient: the standard-I/O client's process_query.*)
(*                                                                         *)
(* Text is modelled as a sequence of tokens: a token stands for a fixed    *)
(* piece of text ("session_id=", "event:", "[", ...), so that the code's   *)
(* strip / startswith / slicing / split / json.loads are computed on the   *)
(* text and not assumed.  A Python value is a record [t, v]: t is its type *)
(* tag and v a sequence of tokens.                                         *)
(***************************************************************************)
EXTENDS Naturals, Sequences, FiniteSets

VARIABLES
    session,        \* self.session is set (aiohttp.ClientSession created)
    session_id,     \* self.session_id: None or a string
    tools,          \* self.tools: the catalog, whatever json.loads returned
    sse_task,       \* state of the task running handle_sse_events
    current_event,  \* handle_sse_events' local current_event
    chan,           \* lines of the GET /sse response body that have arrived
    sse_open,       \* the server has not closed the GET /sse body
    client,         \* which program runs: "sse" (client_sse.py), "stdio" (client.py)
    opc,            \* where the orchestrator (connect_and_chat, chat_loop) stands
    content,        \* process_query: response.content of the first backend turn
    idx,            \* process_query: position of `for content in response.content`
    final_text,     \* process_query: final_text
    posts,          \* tool calls sent to the server by the current query
    backend_calls,  \* anthropic.messages.create calls made by the current query
    ret,            \* what the last process_query returned (None while it runs)
    result,         \* what the last call_tool returned
    ct_event,       \* call_tool's local current_event
    resp_body,      \* call_tool: the lines of the body of the POST response
    nread           \* call_tool: how many of them `async for line` has read

(***************************************************************************)
(* Python values                                                           *)
(***************************************************************************)
None == [t |-> "none", v |-> <<>>]

Str(s) == [t |-> "str", v |-> s]

\* Truthy taking the empty list for true.
TruthyEmptyList(x) ==
    CASE x.t = "none" -> FALSE
      [] x.t = "str"  -> x.v # <<>>
      [] OTHER        -> TRUE

\* Python truthiness of the values self.session_id and self.tools can hold:
\* None, "", [] are false; a non-zero number and a non-empty dict are true.
Truthy(x) ==
    CASE x.t = "none" -> FALSE
      [] x.t = "str"  -> x.v # <<>>
      [] x.t = "list" -> x.v # <<>>
      [] OTHER        -> TRUE

(***************************************************************************)
(* Text operations                                                         *)
(***************************************************************************)
WS == " "

RECURSIVE LStrip(_)
LStrip(s) == IF s # <<>> /\ Head(s) = WS THEN LStrip(Tail(s)) ELSE s

RECURSIVE RStrip(_)
RStrip(s) ==
    IF s # <<>> /\ s[Len(s)] = WS THEN RStrip(SubSeq(s, 1, Len(s) - 1)) ELSE s

\* str.strip()
Strip(s) == RStrip(LStrip(s))

\* line.startswith('event: ') / line.startswith('data: '): the prefix is the
\* field name followed by one blank.
StartsWith(line, field) ==
    Len(line) >= 2 /\ line[1] = field /\ line[2] = WS

\* line[7:], line[6:]: the text after the prefix
AfterPrefix(line) == SubSeq(line, 3, Len(line))

\* str.split(sep) for a separator that is one token: the pieces between the
\* non-overlapping occurrences of sep, in order (always at least one piece).
RECURSIVE Split(_, _)
Split(s, sep) ==
    IF \E i \in 1..Len(s) : s[i] = sep
    THEN LET i == CHOOSE k \in 1..Len(s) :
                      s[k] = sep /\ \A j \in 1..(k - 1) : s[j] # sep
         IN  <<SubSeq(s, 1, i - 1)>> \o Split(SubSeq(s, i + 1, Len(s)), sep)
    ELSE <<s>>

(***************************************************************************)
(* json.loads                                                              *)
(***************************************************************************)
\* Tokens that are one JSON number, and tokens that are one JSON object.
\* "echo" and "add" are tool descriptors (objects with name, description and
\* input_schema); "bare" is an object with none of these keys ({"value": 42}).
JsonNumbers == {"42"}

JsonObjects == {"echo", "add", "bare"}

JsonAtoms == JsonNumbers \cup JsonObjects

JSONDecodeError == [t |-> "JSONDecodeError", v |-> <<>>]

\* The items of the inside of an array, item ("," item)*, or <<"!">> if the
\* text is not of that form.
RECURSIVE JsonItems(_)
JsonItems(s) ==
    IF Len(s) = 1 /\ s[1] \in JsonAtoms THEN s
    ELSE IF Len(s) >= 3 /\ s[1] \in JsonAtoms /\ s[2] = ","
         THEN LET rest == JsonItems(SubSeq(s, 3, Len(s)))
              IN  IF rest = <<"!">> THEN rest ELSE <<s[1]>> \o rest
         ELSE <<"!">>

\* json.loads(text): the decoded value, or JSONDecodeError.  White space
\* between JSON tokens is insignificant.
JsonLoads(text) ==
    LET s == SelectSeq(text, LAMBDA c : c # WS)
    IN  IF Len(s) = 1 /\ s[1] \in JsonNumbers THEN [t |-> "num", v |-> s]
        ELSE IF Len(s) = 1 /\ s[1] \in JsonObjects THEN [t |-> "obj", v |-> s]
        ELSE IF Len(s) >= 2 /\ s[1] = "[" /\ s[Len(s)] = "]"
             THEN IF Len(s) = 2 THEN [t |-> "list", v |-> <<>>]
                  ELSE LET items == JsonItems(SubSeq(s, 2, Len(s) - 1))
                       IN  IF items = <<"!">> THEN JSONDecodeError
                           ELSE [t |-> "list", v |-> items]
             ELSE JSONDecodeError

(***************************************************************************)
(* The wire: lines of a text/event-stream body, before decode and strip    *)
(***************************************************************************)
Ev(type) == <<"event:", WS, type>>

Data(text) == <<"data:", WS>> \o text

\* Payloads of endpoint events: a path and a query string.
EpA == <<"/messages?", "session_id=", "a">>

EpB == <<"/messages?", "session_id=", "b">>

EpBefore == <<"/messages?", "x=1", "&", "session_id=", "a">>

EpAfter == <<"/messages?", "session_id=", "a", "&", "x=1">>

EpNoKey == <<"/messages?", "x=1">>

EpEmpty == <<"/messages?", "session_id=">>

EndpointTexts == {EpA, EpB, EpBefore, EpAfter, EpNoKey, EpEmpty}

\* JSON payloads (and one that json.loads rejects: an array cut short).
JEmpty == <<"[", "]">>

JEcho == <<"[", "echo", "]">>

JAdd == <<"[", "add", "]">>

JEchoAdd == <<"[", "echo", ",", "add", "]">>

JCut == <<"[", "echo">>

JNum == <<"42">>

JObj == <<"bare">>

JsonTexts == {JEmpty, JEcho, JAdd, JEchoAdd, JCut, JNum, JObj}

EventTypes == {"endpoint", "tools", "error", "result", "ping"}

\* Lines that are neither an event line nor a data line for the code: the
\* empty line, a line of white space, a comment, "event: " with no type
\* (strip() removes the blank the prefix needs).
OddLines == {<<>>, <<WS>>, <<":keepalive">>, <<"event:", WS>>}

\* What the server may put on the push channel.
SSELines ==
    {Ev(t) : t \in EventTypes} \cup {Data(x) : x \in EndpointTexts \cup JsonTexts}
        \cup OddLines \cup {Ev("endpoint") \o <<WS>>}

(***************************************************************************)
(* handle_sse_events: the dispatch of one data line                        *)
(***************************************************************************)
IndexError == [t |-> "IndexError", v |-> <<>>]

\* data.split('session_id=')[1]
ExtractSessionId(data) ==
    LET parts == Split(data, "session_id=")
    IN  IF Len(parts) >= 2 THEN Str(parts[2]) ELSE IndexError

\* ApplyTools merging a decoded list into the catalog it should replace.
ApplyToolsMerged(old, data) ==
    IF JsonLoads(data) = JSONDecodeError THEN old
    ELSE IF JsonLoads(data).t = "list" /\ old.t = "list"
    THEN [t |-> "list", v |-> old.v \o JsonLoads(data).v]
    ELSE JsonLoads(data)

\* try: self.tools = json.loads(data) ... except json.JSONDecodeError: the
\* catalog after the statement.
ApplyTools(old, data) ==
    IF JsonLoads(data) = JSONDecodeError THEN old ELSE JsonLoads(data)

\* [tool.get('name') for tool in self.tools] raises for a catalog that is
\* not a list of objects: a number is not iterable; iterating a non-empty
\* object yields its keys, and a str has no get; nor has a number in a list.
ToolsPrintRaises(cat) ==
    CASE cat.t = "num"  -> TRUE
      [] cat.t = "obj"  -> TRUE
      [] cat.t = "list" -> \E i \in 1..Len(cat.v) : cat.v[i] \notin JsonObjects
      [] OTHER          -> FALSE

\* ReaderLine with an error branch that decodes the payload outside a try.
ReaderLineErrorUncaught(raw, cur, sid, cat) ==
    LET line == Strip(raw)
        same == [current_event |-> cur, session_id |-> sid, tools |-> cat,
                 raised |-> FALSE]
    IN  IF line = <<>> THEN same
        ELSE IF StartsWith(line, "event:")
        THEN [same EXCEPT !.current_event = Str(AfterPrefix(line))]
        ELSE IF StartsWith(line, "data:")
        THEN LET data == AfterPrefix(line)
             IN  IF cur = Str(<<"endpoint">>)
                 THEN IF ExtractSessionId(data) = IndexError
                      THEN [same EXCEPT !.raised = TRUE]
                      ELSE [same EXCEPT !.session_id = ExtractSessionId(data)]
                 ELSE IF cur = Str(<<"tools">>)
                 THEN [same EXCEPT !.tools = ApplyTools(cat, data),
                                   !.raised = /\ JsonLoads(data) # JSONDecodeError
                                              /\ ToolsPrintRaises(JsonLoads(data))]
                 ELSE IF cur = Str(<<"error">>)
                 THEN [same EXCEPT !.raised = (JsonLoads(data) = JSONDecodeError)]
                 ELSE same
        ELSE same

\* The state the reader leaves after `line`: [current_event, session_id,
\* tools, raised], raised saying that an exception left the coroutine.
ReaderLine(raw, cur, sid, cat) ==
    LET line == Strip(raw)
        same == [current_event |-> cur, session_id |-> sid, tools |-> cat,
                 raised |-> FALSE]
    IN  IF line = <<>> THEN same
        ELSE IF StartsWith(line, "event:")
        THEN [same EXCEPT !.current_event = Str(AfterPrefix(line))]
        ELSE IF StartsWith(line, "data:")
        THEN LET data == AfterPrefix(line)
             IN  IF cur = Str(<<"endpoint">>)
                 THEN IF ExtractSessionId(data) = IndexError
                      THEN [same EXCEPT !.raised = TRUE]
                      ELSE [same EXCEPT !.session_id = ExtractSessionId(data)]
                 ELSE IF cur = Str(<<"tools">>)
                 THEN [same EXCEPT !.tools = ApplyTools(cat, data),
                                   !.raised = /\ JsonLoads(data) # JSONDecodeError
                                              /\ ToolsPrintRaises(JsonLoads(data))]
                 ELSE same   \* 'error' (either branch prints) and unknown types
        ELSE same

(***************************************************************************)
(* The backend's turns and process_query's texts                           *)
(***************************************************************************)
Text(x) == [type |-> "text", arg |-> x]

ToolUse(name) == [type |-> "tool_use", arg |-> name]

Blocks == {Text("T1"), Text("T2"), ToolUse("echo"), ToolUse("add")}

MaxBlocks == 3

\* The sequences of at most n blocks.
RECURSIVE SeqsUpTo(_, _)
SeqsUpTo(S, n) ==
    IF n = 0 THEN {<<>>}
    ELSE LET shorter == SeqsUpTo(S, n - 1)
         IN  shorter \cup {Append(q, x) : q \in shorter, x \in S}

Contents == SeqsUpTo(Blocks, MaxBlocks)

NoToolsMsg == <<"Error: No tools available from MCP server yet. Please wait...">>

SorryMsg == <<"Sorry, I encountered an error while processing your request.">>

\* f"Error executing tool {tool_name}: {str(e)}"
ErrorMsg(name, e) == <<"Error executing tool ", name, ": ", e>>

NotConnected == "Not connected to server"

ToolCallFailed == "Tool call failed: 503 - "

NoResponse == "No tool response received"

BackendError == "backend error"

ListIndexError == "list index out of range"

\* Join with an empty separator.
RECURSIVE JoinNoSep(_)
JoinNoSep(parts) ==
    IF parts = <<>> THEN <<>> ELSE parts[1] \o JoinNoSep(Tail(parts))

\* "\n".join(parts)
RECURSIVE Join(_)
Join(parts) ==
    IF parts = <<>> THEN <<>>
    ELSE IF Len(parts) = 1 THEN parts[1]
    ELSE parts[1] \o <<"\n">> \o Join(Tail(parts))

\* An exception that leaves process_query (chat_loop prints it).
Raised(e) == [t |-> "raised", v |-> <<e>>]

\* The loop that builds available_tools raises unless the catalog is a list
\* of objects with the keys name, description and input_schema.
SchemaRaises(cat) ==
    CASE cat.t = "list" -> \E i \in 1..Len(cat.v) : cat.v[i] \notin {"echo", "add"}
      [] OTHER          -> TRUE

\* AppendText forgetting the text block.
AppendTextDropped(ft, block) == ft

\* final_text.append(content.text)
AppendText(ft, block) == Append(ft, <<block.arg>>)

\* call_tool's guard without its test of session_id.
CallToolConnectedNoSid(sess, sid) == sess

\* call_tool's guard: `if not self.session or not self.session_id: raise`
CallToolConnected(sess, sid) == sess /\ Truthy(sid)

\* `for content in response.content` of MCPClientSSE.process_query from block
\* i on, up to the next await (the POST of a tool call) or the return: the
\* orchestrator's [opc, idx, final_text, posts, ret] there.
RECURSIVE ForContent(_, _, _, _, _, _)
ForContent(c, i, ft, ps, sess, sid) ==
    IF i > Len(c)
    THEN [opc |-> "input", idx |-> i, final_text |-> ft, posts |-> ps,
          ret |-> Str(Join(ft))]
    ELSE IF c[i].type = "text"
    THEN ForContent(c, i + 1, AppendText(ft, c[i]), ps, sess, sid)
    ELSE IF c[i].type = "tool_use"
    THEN IF CallToolConnected(sess, sid)
         THEN [opc |-> "post", idx |-> i, final_text |-> ft,
               posts |-> Append(ps, [tool |-> c[i].arg, session_id |-> sid]),
               ret |-> None]
         ELSE ForContent(c, i + 1, Append(ft, ErrorMsg(c[i].arg, NotConnected)),
                         ps, sess, sid)
    ELSE ForContent(c, i + 1, ft, ps, sess, sid)

(***************************************************************************)
(* The event loop                                                          *)
(***************************************************************************)
\* The orchestrator is suspended in an await (asyncio.sleep, the POST, a line
\* of its response): the loop may run the reader task.  input() and
\* anthropic.messages.create are synchronous calls and hold the loop until
\* they return.
Suspended == {"wait_sid", "post", "scan"}

LoopFree == opc \in Suspended

MaxChan == 1

MaxResp == 4

readerVars == <<session_id, tools, sse_task, current_event>>

wireVars == <<chan, sse_open>>

queryVars == <<content, idx, final_text, posts, backend_calls, ret>>

callVars == <<result, ct_event, resp_body, nread>>

vars == <<client, session, readerVars, wireVars, opc, queryVars, callVars>>

InitCommon ==
    /\ session = FALSE
    /\ session_id = None
    /\ tools = [t |-> "list", v |-> <<>>]
    /\ sse_task = "none"
    /\ current_event = None
    /\ chan = <<>>
    /\ sse_open = TRUE
    /\ opc = "new"
    /\ content = <<>>
    /\ idx = 1
    /\ final_text = <<>>
    /\ posts = <<>>
    /\ backend_calls = 0
    /\ ret = None
    /\ result = None
    /\ ct_event = None
    /\ resp_body = <<>>
    /\ nread = 0

\* MCPClientSSE(server_url)
Init == client = "sse" /\ InitCommon

\* MCPClient()
InitStdio == client = "stdio" /\ InitCommon

\* connect_and_chat up to its first await: the ClientSession, the task, the
\* first test of the wait loop (session_id is None) and the sleep.
Connect ==
    /\ client = "sse"
    /\ opc = "new"
    /\ session' = TRUE
    /\ sse_task' = "pending"
    /\ opc' = "wait_sid"
    /\ UNCHANGED <<client, session_id, tools, current_event, wireVars, queryVars, callVars>>

\* handle_sse_events up to the loop: the GET is answered with `status`.
ReaderConnect(status) ==
    /\ sse_task = "pending"
    /\ LoopFree
    /\ sse_task' = IF status = 200 THEN "reading" ELSE "raised"
    /\ current_event' = None
    /\ UNCHANGED <<client, session, session_id, tools, wireVars, opc, queryVars, callVars>>

\* The server writes a line to the body of the GET /sse response.
ServerSend(line) ==
    /\ sse_task \in {"pending", "reading"}
    /\ sse_open
    /\ Len(chan) < MaxChan
    /\ chan' = Append(chan, line)
    /\ UNCHANGED <<client, session, readerVars, sse_open, opc, queryVars, callVars>>

\* The server ends the body.
ServerClose ==
    /\ sse_task \in {"pending", "reading"}
    /\ sse_open
    /\ sse_open' = FALSE
    /\ UNCHANGED <<client, session, readerVars, chan, opc, queryVars, callVars>>

\* One round of `async for line in response.content`.
ReaderStep ==
    /\ sse_task = "reading"
    /\ LoopFree
    /\ chan # <<>>
    /\ LET r == ReaderLine(Head(chan), current_event, session_id, tools)
       IN  /\ current_event' = r.current_event
           /\ session_id' = r.session_id
           /\ tools' = r.tools
           /\ sse_task' = IF r.raised THEN "raised" ELSE "reading"
    /\ chan' = Tail(chan)
    /\ UNCHANGED <<client, session, sse_open, opc, queryVars, callVars>>

\* The body has ended: the loop and the coroutine finish.
ReaderEnd ==
    /\ sse_task = "reading"
    /\ LoopFree
    /\ chan = <<>>
    /\ ~sse_open
    /\ sse_task' = "finished"
    /\ UNCHANGED <<client, session, session_id, tools, current_event, wireVars, opc,
                   queryVars, callVars>>

(***************************************************************************)
(* MCPClientSSE: connect_and_chat, chat_loop, process_query, call_tool     *)
(***************************************************************************)
\* `while not self.session_id: await asyncio.sleep(0.5)`, then chat_loop up
\* to input().
WaitSid ==
    /\ opc = "wait_sid"
    /\ opc' = IF Truthy(session_id) THEN "input" ELSE "wait_sid"
    /\ UNCHANGED <<client, session, readerVars, wireVars, queryVars, callVars>>

\* The orchestrator's variables after a run of the for loop.
Resume(r) ==
    /\ opc' = r.opc
    /\ idx' = r.idx
    /\ final_text' = r.final_text
    /\ posts' = r.posts
    /\ ret' = r.ret

\* input() returns 'quit': chat_loop breaks and connect_and_chat's finally
\* cancels the reader task and awaits it.  A task that is still running ends
\* cancelled (the CancelledError is swallowed); awaiting a task that has
\* raised re-raises its exception out of connect_and_chat.
Quit ==
    /\ client = "sse"
    /\ opc = "input"
    /\ sse_task' = IF sse_task \in {"pending", "reading"} THEN "cancelled" ELSE sse_task
    /\ opc' = IF sse_task = "raised" THEN "exited_error" ELSE "exited"
    /\ UNCHANGED <<client, session, session_id, tools, current_event, wireVars,
                   queryVars, callVars>>

\* input() returns a query: process_query up to the first backend call.
UserQuery ==
    /\ client = "sse"
    /\ opc = "input"
    /\ content' = <<>>
    /\ idx' = 1
    /\ final_text' = <<>>
    /\ posts' = <<>>
    /\ IF ~Truthy(tools)
       THEN /\ ret' = Str(NoToolsMsg)
            /\ backend_calls' = 0
            /\ opc' = "input"
       ELSE IF SchemaRaises(tools)
       THEN /\ ret' = Raised("TypeError")
            /\ backend_calls' = 0
            /\ opc' = "input"
       ELSE /\ ret' = None
            /\ backend_calls' = 1
            /\ opc' = "turn1"
    /\ UNCHANGED <<client, session, readerVars, wireVars, callVars>>

\* The first anthropic.messages.create raises.
Turn1Fails ==
    /\ client = "sse"
    /\ opc = "turn1"
    /\ ret' = Str(SorryMsg)
    /\ opc' = "input"
    /\ UNCHANGED <<client, session, readerVars, wireVars, content, idx, final_text,
                   posts, backend_calls, callVars>>

\* The first anthropic.messages.create returns a turn with the blocks c.
Turn1(c) ==
    /\ client = "sse"
    /\ opc = "turn1"
    /\ content' = c
    /\ Resume(ForContent(c, 1, <<>>, posts, session, session_id))
    /\ UNCHANGED <<client, session, readerVars, wireVars, backend_calls, callVars>>

\* call_tool is left (by return or by exception): its locals are gone.
CallOver ==
    /\ result' = None
    /\ ct_event' = None
    /\ resp_body' = <<>>
    /\ nread' = 0

\* The POST of call_tool is answered with `status` and a body of the lines
\* `body`.
PostResponse(status, body) ==
    /\ opc = "post"
    /\ IF status = 200
       THEN /\ opc' = "scan"
            /\ ct_event' = None
            /\ resp_body' = body
            /\ nread' = 0
            /\ UNCHANGED <<idx, final_text, posts, ret, result>>
       ELSE /\ Resume(ForContent(content, idx + 1,
                                 Append(final_text, ErrorMsg(content[idx].arg, ToolCallFailed)),
                                 posts, session, session_id))
            /\ CallOver
    /\ UNCHANGED <<client, session, readerVars, wireVars, content, backend_calls>>

\* ScanLine returning the first decodable payload, whatever its event type.
ScanLineAnyEvent(raw, cur) ==
    LET line == Strip(raw)
        same == [current_event |-> cur, returned |-> FALSE, result |-> None]
    IN  IF line = <<>> THEN same
        ELSE IF StartsWith(line, "event:")
        THEN [same EXCEPT !.current_event = Str(AfterPrefix(line))]
        ELSE IF StartsWith(line, "data:") /\ JsonLoads(AfterPrefix(line)) # JSONDecodeError
        THEN [same EXCEPT !.returned = TRUE, !.result = JsonLoads(AfterPrefix(line))]
        ELSE same

\* ScanLine returning the payload of a result event undecoded.
ScanLineUndecoded(raw, cur) ==
    LET line == Strip(raw)
        same == [current_event |-> cur, returned |-> FALSE, result |-> None]
    IN  IF line = <<>> THEN same
        ELSE IF StartsWith(line, "event:")
        THEN [same EXCEPT !.current_event = Str(AfterPrefix(line))]
        ELSE IF StartsWith(line, "data:") /\ cur = Str(<<"result">>)
        THEN [same EXCEPT !.returned = TRUE, !.result = Str(AfterPrefix(line))]
        ELSE same

\* What one line of the POST response does to call_tool: [current_event,
\* returned, result].
ScanLine(raw, cur) ==
    LET line == Strip(raw)
        same == [current_event |-> cur, returned |-> FALSE, result |-> None]
    IN  IF line = <<>> THEN same
        ELSE IF StartsWith(line, "event:")
        THEN [same EXCEPT !.current_event = Str(AfterPrefix(line))]
        ELSE IF StartsWith(line, "data:")
        THEN LET data == AfterPrefix(line)
             IN  IF JsonLoads(data) # JSONDecodeError /\ cur = Str(<<"result">>)
                 THEN [same EXCEPT !.returned = TRUE, !.result = JsonLoads(data)]
                 ELSE same
        ELSE same

\* One round of call_tool's `async for line in response.content`; on a result
\* call_tool returns and process_query goes on to the second backend call.
Scan ==
    /\ opc = "scan"
    /\ nread < Len(resp_body)
    /\ nread' = nread + 1
    /\ LET r == ScanLine(resp_body[nread + 1], ct_event)
       IN  /\ ct_event' = r.current_event
           /\ IF r.returned
              THEN /\ result' = r.result
                   /\ opc' = "turn2"
                   /\ backend_calls' = backend_calls + 1
              ELSE UNCHANGED <<result, opc, backend_calls>>
    /\ UNCHANGED <<client, session, readerVars, wireVars, content, idx, final_text,
                   posts, ret, resp_body>>

\* The POST response body ends with no result: call_tool raises.
ScanEnd ==
    /\ opc = "scan"
    /\ nread = Len(resp_body)
    /\ Resume(ForContent(content, idx + 1,
                         Append(final_text, ErrorMsg(content[idx].arg, NoResponse)),
                         posts, session, session_id))
    /\ CallOver
    /\ UNCHANGED <<client, session, readerVars, wireVars, content, backend_calls>>

\* What the try block appends to final_text for the second backend call's
\* outcome: response.content[0].text, or the except branch's error line.
Turn2Text(name, outcome) ==
    CASE outcome = "fail"  -> ErrorMsg(name, BackendError)
      [] outcome = "empty" -> ErrorMsg(name, ListIndexError)
      [] OTHER             -> <<outcome>>

Turn2Outcomes == {"fail", "empty", "F1"}

\* The second anthropic.messages.create ends; the for loop goes on.
Turn2(outcome) ==
    /\ client = "sse"
    /\ opc = "turn2"
    /\ Resume(ForContent(content, idx + 1,
                         Append(final_text, Turn2Text(content[idx].arg, outcome)),
                         posts, session, session_id))
    /\ CallOver
    /\ UNCHANGED <<client, session, readerVars, wireVars, content, backend_calls>>

Statuses == {200, 503}

\* The lines the server sends on the push channel and in the body of a POST
\* response in the specification of the whole client.
CoreSSELines ==
    {Ev("endpoint"), Ev("tools"), Data(EpA), Data(EpEmpty), Data(JEcho), Data(JEmpty)}

CoreBodies == {<<>>, <<Ev("result"), Data(JNum)>>, <<Ev("result"), Data(JCut)>>}

CoreContents == SeqsUpTo({Text("T1"), ToolUse("echo")}, 2)

\* The push-channel client as a whole.
Next ==
    \/ Connect
    \/ \E status \in Statuses : ReaderConnect(status)
    \/ \E line \in CoreSSELines : ServerSend(line)
    \/ ServerClose
    \/ ReaderStep
    \/ ReaderEnd
    \/ WaitSid
    \/ Quit
    \/ UserQuery
    \/ Turn1Fails
    \/ \E c \in CoreContents : Turn1(c)
    \/ \E status \in Statuses, body \in CoreBodies : PostResponse(status, body)
    \/ Scan
    \/ ScanEnd
    \/ \E outcome \in Turn2Outcomes : Turn2(outcome)

Spec == Init /\ [][Next]_vars

(***************************************************************************)
(* MCPClient (client.py): connect_to_server, chat_loop, process_query      *)
(***************************************************************************)
ScriptPaths == {<<"server", ".py">>, <<"server", ".js">>, <<"server", ".rb">>}

\* server_script_path.endswith(suffix)
EndsWith(path, suffix) == path # <<>> /\ path[Len(path)] = suffix

\* connect_to_server: a script that is neither .py nor .js raises ValueError,
\* which main reports; else the session is opened and chat_loop waits in
\* input().
StdioConnect(path) ==
    /\ client = "stdio"
    /\ opc = "new"
    /\ IF EndsWith(path, ".py") \/ EndsWith(path, ".js")
       THEN session' = TRUE /\ opc' = "input"
       ELSE session' = FALSE /\ opc' = "exited_error"
    /\ UNCHANGED <<client, readerVars, wireVars, queryVars, callVars>>

\* input() returns 'quit'.
StdioQuit ==
    /\ client = "stdio"
    /\ opc = "input"
    /\ opc' = "exited"
    /\ UNCHANGED <<client, session, readerVars, wireVars, queryVars, callVars>>

\* input() returns a query: process_query up to the first backend call;
\* `listed` says whether session.list_tools() returned or raised.
StdioUserQuery(listed) ==
    /\ client = "stdio"
    /\ opc = "input"
    /\ content' = <<>>
    /\ idx' = 1
    /\ final_text' = <<>>
    /\ posts' = <<>>
    /\ IF listed
       THEN ret' = None /\ backend_calls' = 1 /\ opc' = "turn1"
       ELSE ret' = Raised("McpError") /\ backend_calls' = 0 /\ opc' = "input"
    /\ UNCHANGED <<client, session, readerVars, wireVars, callVars>>

\* The first anthropic.messages.create raises.
StdioTurn1Fails ==
    /\ client = "stdio"
    /\ opc = "turn1"
    /\ ret' = Str(SorryMsg)
    /\ opc' = "input"
    /\ UNCHANGED <<client, session, readerVars, wireVars, content, idx, final_text,
                   posts, backend_calls, callVars>>

\* `for content in response.content` of MCPClient.process_query: every text
\* block is appended, and tool_use_block, tool_name are left at the last
\* tool_use block: [final_text, at], at = 0 when there is none.
RECURSIVE StdioForContent(_, _, _, _)
StdioForContent(c, i, ft, at) ==
    IF i > Len(c) THEN [final_text |-> ft, at |-> at]
    ELSE IF c[i].type = "text" THEN StdioForContent(c, i + 1, AppendText(ft, c[i]), at)
    ELSE IF c[i].type = "tool_use" THEN StdioForContent(c, i + 1, ft, i)
    ELSE StdioForContent(c, i + 1, ft, at)

\* The first anthropic.messages.create returns a turn with the blocks c: the
\* loop, then `if tool_use_block:` up to the await of session.call_tool.
StdioTurn1(c) ==
    /\ client = "stdio"
    /\ opc = "turn1"
    /\ content' = c
    /\ LET r == StdioForContent(c, 1, <<>>, 0)
       IN  /\ final_text' = r.final_text
           /\ IF r.at = 0
              THEN /\ ret' = Str(Join(r.final_text))
                   /\ opc' = "input"
                   /\ UNCHANGED <<idx, posts>>
              ELSE /\ idx' = r.at
                   /\ posts' = Append(posts, [tool |-> c[r.at].arg, session_id |-> None])
                   /\ ret' = None
                   /\ opc' = "invoke"
    /\ UNCHANGED <<client, session, readerVars, wireVars, backend_calls, callVars>>

ToolError == "tool error"

\* session.call_tool ends: it raises, or result.content is empty
\* (result.content[0] raises), or it returns a text and the second backend
\* call is made.
StdioCallTool(outcome) ==
    /\ client = "stdio"
    /\ opc = "invoke"
    /\ IF outcome = "ok"
       THEN /\ result' = Str(<<"R1">>)
            /\ backend_calls' = backend_calls + 1
            /\ opc' = "turn2"
            /\ UNCHANGED <<final_text, ret>>
       ELSE /\ final_text' = Append(final_text,
                    ErrorMsg(content[idx].arg,
                             IF outcome = "raise" THEN ToolError ELSE ListIndexError))
            /\ ret' = Str(Join(final_text'))
            /\ opc' = "input"
            /\ UNCHANGED <<result, backend_calls>>
    /\ UNCHANGED <<client, session, readerVars, wireVars, content, idx, posts,
                   ct_event, resp_body, nread>>

ToolOutcomes == {"ok", "raise", "empty"}

\* The second anthropic.messages.create ends; process_query returns.
StdioTurn2(outcome) ==
    /\ client = "stdio"
    /\ opc = "turn2"
    /\ final_text' = Append(final_text, Turn2Text(content[idx].arg, outcome))
    /\ ret' = Str(Join(final_text'))
    /\ opc' = "input"
    /\ CallOver
    /\ UNCHANGED <<client, session, readerVars, wireVars, content, idx, posts,
                   backend_calls>>

(***************************************************************************)
(* Specifications of parts                                                 *)
(***************************************************************************)
\* The push-channel client once the reader has applied an endpoint event and
\* a tools event and chat_loop waits in input(), the push channel silent.
InitEstablished ==
    /\ client = "sse"
    /\ session = TRUE
    /\ session_id = Str(<<"a">>)
    /\ tools = [t |-> "list", v |-> <<"echo">>]
    /\ sse_task = "reading"
    /\ current_event = Str(<<"tools">>)
    /\ chan = <<>>
    /\ sse_open = TRUE
    /\ opc = "input"
    /\ content = <<>>
    /\ idx = 1
    /\ final_text = <<>>
    /\ posts = <<>>
    /\ backend_calls = 0
    /\ ret = None
    /\ result = None
    /\ ct_event = None
    /\ resp_body = <<>>
    /\ nread = 0

\* The lines of a POST response body, and the bodies of at most MaxResp lines.
RespLines == {Ev("result"), Ev("error"), Data(JNum), Data(JObj), Data(JCut), <<>>}

Bodies == SeqsUpTo(RespLines, MaxResp)

CallContents == {<<ToolUse("echo")>>, <<Text("T1"), ToolUse("add")>>}

\* call_tool under every response body.
NextCall ==
    \/ UserQuery
    \/ Turn1Fails
    \/ \E c \in CallContents : Turn1(c)
    \/ opc = "post" /\ \E status \in Statuses, body \in Bodies : PostResponse(status, body)
    \/ Scan
    \/ ScanEnd
    \/ \E outcome \in Turn2Outcomes : Turn2(outcome)

SpecCall == InitEstablished /\ [][NextCall]_vars

\* process_query of both clients under every first turn.
NextQuery ==
    \/ UserQuery
    \/ Turn1Fails
    \/ opc = "turn1" /\ \E c \in Contents : Turn1(c)
    \/ \E status \in Statuses, body \in CoreBodies : PostResponse(status, body)
    \/ Scan
    \/ ScanEnd
    \/ \E outcome \in Turn2Outcomes : Turn2(outcome)
    \/ Quit
    \/ \E path \in ScriptPaths : StdioConnect(path)
    \/ StdioQuit
    \/ \E listed \in BOOLEAN : StdioUserQuery(listed)
    \/ StdioTurn1Fails
    \/ opc = "turn1" /\ \E c \in Contents : StdioTurn1(c)
    \/ \E outcome \in ToolOutcomes : StdioCallTool(outcome)
    \/ \E outcome \in Turn2Outcomes : StdioTurn2(outcome)

SpecQuery == (InitEstablished \/ InitStdio) /\ [][NextQuery]_vars

\* The reader under every line the server may send, the orchestrator asleep
\* in its wait for the session identifier and the user typing nothing.
NextReader ==
    \/ Connect
    \/ \E status \in Statuses : ReaderConnect(status)
    \/ \E line \in SSELines : ServerSend(line)
    \/ ServerClose
    \/ ReaderStep
    \/ ReaderEnd
    \/ WaitSid

SpecReader == Init /\ [][NextReader]_vars

\* The lines of a result event, sent on the push channel.
SharedLines == {Ev("result"), Data(JNum)}

\* A tool call of the established client while the server sends result
\* events on the push channel: the reader and call_tool side by side.
NextShared ==
    \/ \E line \in SharedLines : ServerSend(line)
    \/ ReaderStep
    \/ UserQuery
    \/ Turn1Fails
    \/ \E c \in CallContents : Turn1(c)
    \/ opc = "post" /\ \E status \in Statuses, body \in CoreBodies : PostResponse(status, body)
    \/ Scan
    \/ ScanEnd
    \/ \E outcome \in Turn2Outcomes : Turn2(outcome)

SpecShared == InitEstablished /\ [][NextShared]_vars

\* The whole client under the fairness of its scheduling: the event loop
\* runs a task that is ready whenever the loop is free, every call the
\* orchestrator waits for returns, and the user goes on typing.
FairSpec ==
    /\ Spec
    /\ WF_vars(\E status \in Statuses : ReaderConnect(status))
    /\ WF_vars(ReaderStep)
    /\ WF_vars(ReaderEnd)
    /\ WF_vars(WaitSid)
    /\ WF_vars(UserQuery \/ Quit)
    /\ WF_vars(Turn1Fails \/ \E c \in CoreContents : Turn1(c))
    /\ WF_vars(\E status \in Statuses, body \in CoreBodies : PostResponse(status, body))
    /\ WF_vars(Scan)
    /\ WF_vars(ScanEnd)
    /\ WF_vars(\E outcome \in Turn2Outcomes : Turn2(outcome))

(***************************************************************************)
(* Properties                                                              *)
(***************************************************************************)
\* The step is a round of the reader's loop on a data line, the current
\* event type being `type`.
ReaderApplies(type) ==
    /\ sse_task = "reading"
    /\ chan # <<>>
    /\ chan' = Tail(chan)
    /\ current_event = Str(<<type>>)
    /\ StartsWith(Strip(Head(chan)), "data:")

\* The payload of the line at the head of the push channel.
HeadPayload == AfterPrefix(Strip(Head(chan)))

\* The payloads that are JSON, with the values they denote.
DenotedValue(text) ==
    CASE text = JEmpty   -> [t |-> "list", v |-> <<>>]
      [] text = JEcho    -> [t |-> "list", v |-> <<"echo">>]
      [] text = JAdd     -> [t |-> "list", v |-> <<"add">>]
      [] text = JEchoAdd -> [t |-> "list", v |-> <<"echo", "add">>]
      [] text = JNum     -> [t |-> "num", v |-> <<"42">>]
      [] text = JObj     -> [t |-> "obj", v |-> <<"bare">>]

IsJson(text) == text \in {JEmpty, JEcho, JAdd, JEchoAdd, JNum, JObj}

\* The parameters of the query string of an endpoint payload (the text after
\* the path, cut at every "&").
QueryParams(text) == IF text = <<>> THEN <<>> ELSE Split(Tail(text), "&")

HasSessionIdKey(text) ==
    \E i \in 1..Len(QueryParams(text)) :
        /\ QueryParams(text)[i] # <<>>
        /\ Head(QueryParams(text)[i]) = "session_id="

\* The value of the (first) session_id parameter.
SessionIdValue(text) ==
    LET ps == QueryParams(text)
        i == CHOOSE k \in 1..Len(ps) :
                 /\ ps[k] # <<>> /\ Head(ps[k]) = "session_id="
                 /\ \A j \in 1..(k - 1) : ps[j] = <<>> \/ Head(ps[j]) # "session_id="
    IN  Tail(ps[i])

HasToolUse(c) == \E i \in 1..Len(c) : c[i].type = "tool_use"

FirstToolUse(c) ==
    c[CHOOSE i \in 1..Len(c) :
          c[i].type = "tool_use" /\ \A j \in 1..(i - 1) : c[j].type # "tool_use"].arg

\* The lines of a text, one per part.
RECURSIVE Lines(_)
Lines(parts) ==
    IF parts = <<>> THEN <<>>
    ELSE IF Len(parts) = 1 THEN parts[1]
    ELSE parts[1] \o <<"\n">> \o Lines(Tail(parts))

\* C1: call_tool invoked while the session identifier is unset (None or
\* empty) fails with the not-connected error and sends nothing: a step sends
\* a tool call only in a state where the session and a session identifier are
\* set, and the request carries that identifier; and a first turn processed
\* while the session is unestablished sends nothing and renders every
\* tool-use block as the not-connected error line.
C1_NoCallUnestablished ==
    [][/\ (posts' # posts /\ posts' # <<>>) =>
            /\ session /\ Truthy(session_id)
            /\ Len(posts') = Len(posts) + 1
            /\ posts'[Len(posts')].session_id = session_id
            /\ opc' = "post"
       /\ (client = "sse" /\ opc = "turn1" /\ opc' # "turn1"
             /\ ret' # Str(SorryMsg) /\ ~Truthy(session_id)) =>
            /\ posts' = <<>>
            /\ opc' = "input"
            /\ final_text' = [i \in 1..Len(content') |->
                                 IF content'[i].type = "text" THEN <<content'[i].arg>>
                                 ELSE ErrorMsg(content'[i].arg, NotConnected)]]_vars

C1_Witness ==
    /\ client = "sse"
    /\ ret # None
    /\ posts = <<>>
    /\ ~Truthy(session_id)
    /\ \E i \in 1..Len(final_text) : final_text[i] = ErrorMsg("echo", NotConnected)

\* The first k lines of a response body are events, each an event line and
\* its data line (blank lines may follow a data line), the last of them a
\* result event with a JSON payload and none before it a result event.
RECURSIVE Framed(_)
Framed(ls) ==
    \/ ls = <<>>
    \/ /\ Len(ls) >= 2
       /\ Len(ls[1]) = 3 /\ ls[1][1] = "event:" /\ ls[1][2] = WS
       /\ Len(ls[2]) >= 3 /\ ls[2][1] = "data:" /\ ls[2][2] = WS
       /\ Framed(SubSeq(ls, 3, Len(ls)))
    \/ /\ Len(ls) >= 3
       /\ Len(ls[1]) = 3 /\ ls[1][1] = "event:" /\ ls[1][2] = WS
       /\ Len(ls[2]) >= 3 /\ ls[2][1] = "data:" /\ ls[2][2] = WS
       /\ ls[3] = <<>>
       /\ Framed(SubSeq(ls, 4, Len(ls)))

FirstResultAt(body, k) ==
    /\ k >= 2
    /\ Framed(SubSeq(body, 1, k))
    /\ body[k - 1] = Ev("result")
    /\ IsJson(SubSeq(body[k], 3, Len(body[k])))
    /\ \A j \in 1..(k - 2) : body[j] # Ev("result")

\* C2: when the response body call_tool scans is a run of non-result events
\* followed by a result event with decodable payload P, call_tool returns at
\* that event and not before, and what it returns is P.
C2_FirstResultReturned ==
    (client = "sse" /\ opc \in {"scan", "turn2"}) =>
        \A k \in 1..Len(resp_body) :
            FirstResultAt(resp_body, k) =>
                /\ nread <= k
                /\ nread < k => opc = "scan"
                /\ nread = k =>
                    /\ opc = "turn2"
                    /\ result = DenotedValue(SubSeq(resp_body[k], 3, Len(resp_body[k])))

C2_Witness ==
    /\ opc = "turn2"
    /\ resp_body = <<Ev("error"), Data(JObj), Ev("result"), Data(JNum)>>
    /\ nread = 4
    /\ result = [t |-> "num", v |-> <<"42">>]

\* C3: a tools event replaces the catalog by exactly the value of its payload
\* when the payload is JSON, and leaves the catalog as it was when it is not.
C3_ToolsReplacedOrKept ==
    [][ReaderApplies("tools") =>
           tools' = IF IsJson(HeadPayload) THEN DenotedValue(HeadPayload) ELSE tools]_vars

C3_Witness ==
    /\ sse_task = "reading"
    /\ tools = [t |-> "list", v |-> <<"echo", "add">>]
    /\ current_event = Str(<<"tools">>)
    /\ chan = <<Data(JCut)>>
    /\ opc = "wait_sid"

\* C4: an endpoint event whose payload has a session_id parameter sets the
\* session identifier to exactly that parameter's value.
C4_SessionIdVerbatim ==
    [][(ReaderApplies("endpoint") /\ HasSessionIdKey(HeadPayload)) =>
           session_id' = Str(SessionIdValue(HeadPayload))]_vars

\* C5: a line that has arrived on the push channel while the orchestrator is
\* blocked in input() or in a backend call is eventually read by the reader
\* (unless the reader task has ended).
C5_ArrivedEventApplied ==
    (sse_task = "reading" /\ chan # <<>> /\ opc \in {"input", "turn1", "turn2"})
        ~> (chan = <<>> \/ sse_task # "reading")

\* C6: a query whose first turn has tool-use blocks makes exactly one tool
\* invocation, for the first of them.
C6_OneInvocationFirstToolUse ==
    (ret # None /\ HasToolUse(content)) =>
        (Len(posts) = 1 /\ posts[1].tool = FirstToolUse(content))

\* C7: a first turn with no tool-use block makes process_query return the
\* turn's text (its text blocks, one per line), with no tool call and no
\* second backend call.
C7_TextOnlyTurn ==
    (ret # None /\ backend_calls >= 1 /\ ret # Str(SorryMsg) /\ ~HasToolUse(content)) =>
        /\ ret = Str(Lines([i \in 1..Len(content) |-> <<content[i].arg>>]))
        /\ posts = <<>>
        /\ backend_calls = 1

C7_Witness ==
    /\ client = "sse"
    /\ content = <<Text("T1"), Text("T2")>>
    /\ ret = Str(<<"T1", "\n", "T2">>)
    /\ posts = <<>>
    /\ backend_calls = 1

\* Every tool call of the query and the backend turn after it succeeded:
\* nothing was rendered as an error line.
AllSucceeded ==
    \A i \in 1..Len(final_text) : Head(final_text[i]) # "Error executing tool "

TextsInPlace(c) ==
    [i \in 1..Len(c) |-> IF c[i].type = "text" THEN <<c[i].arg>> ELSE <<"F1">>]

TextBlocks(c) == SelectSeq(c, LAMBDA b : b.type = "text")

C9_SessionIdImmutable ==
    [][session_id # None => session_id' = session_id]_vars

\* C10: an endpoint event whose payload has no session_id parameter leaves
\* the reader reading and the session identifier as it was.
C10_MalformedEndpointNonFatal ==
    [][(ReaderApplies("endpoint") /\ ~HasSessionIdKey(HeadPayload)) =>
           (sse_task' = "reading" /\ session_id' = session_id)]_vars

\* The names of the descriptors of a catalog.
CatalogNames(cat) == IF cat.t = "list" THEN {cat.v[i] : i \in 1..Len(cat.v)} ELSE {}

\* C11: a step that sends a tool call sends it for a tool whose name is in
\* the catalog as it is at that moment (a tool-use block naming any other
\* tool is not sent as an ordinary call).
C11_InvokedToolInCatalog ==
    [][(client = "sse" /\ posts' # posts /\ posts' # <<>>) =>
           posts'[Len(posts')].tool \in CatalogNames(tools)]_vars

\* The second backend call of the query (the one that carries a tool result)
\* raised: the except branch rendered the exception.
SecondTurnFailed ==
    \E i \in 1..Len(final_text) :
        Len(final_text[i]) = 4 /\ final_text[i][4] = BackendError

\* C12: a query whose second backend call fails returns the fixed degraded
\* message, as a query whose first backend call fails does (nothing is
\* raised to chat_loop).
C12_BackendFailureDegraded ==
    (ret # None /\ SecondTurnFailed) => ret = Str(SorryMsg)

IsEventLine(l) == Len(l) = 3 /\ l[1] = "event:" /\ l[2] = WS

\* A response body holds a result event with a decodable payload: a data
\* line with a JSON payload, the last event line before it naming `result`.
HasResultEvent(body) ==
    \E k \in 1..Len(body) :
        /\ Len(body[k]) >= 3 /\ body[k][1] = "data:" /\ body[k][2] = WS
        /\ IsJson(SubSeq(body[k], 3, Len(body[k])))
        /\ \E j \in 1..(k - 1) :
               /\ body[j] = Ev("result")
               /\ \A m \in (j + 1)..(k - 1) : ~IsEventLine(body[m])

\* The step ends call_tool by the exception with the message e: the except
\* branch of process_query appends its error line, no result is returned and
\* no second backend call is made.
CallToolRaises(e) ==
    /\ Len(final_text') > Len(final_text)
    /\ final_text'[Len(final_text) + 1] =
           <<"Error executing tool ", content[idx].arg, ": ", e>>
    /\ result' = None
    /\ opc' # "turn2"
    /\ backend_calls' = backend_calls

\* C13: on an established session a tool call whose POST is answered with a
\* status other than 200 raises "Tool call failed" (a step out of the POST
\* either starts the scan of the response or is that failure), a call whose
\* response body holds no result event with a decodable payload returns no
\* result at any line and raises "No tool response received" at the end of
\* the body; and no step of call_tool changes the session identifier or the
\* catalog.
C13_CallToolFails ==
    [][(client = "sse" /\ opc \in {"post", "scan"}) =>
           /\ (opc = "post" /\ opc' # "scan") => CallToolRaises("Tool call failed: 503 - ")
           /\ (opc = "scan" /\ ~HasResultEvent(resp_body)) =>
                  /\ opc' # "turn2" /\ result' = None
                  /\ nread = Len(resp_body) => CallToolRaises("No tool response received")
           /\ session_id' = session_id
           /\ tools' = tools]_vars

C13_Witness ==
    /\ client = "sse"
    /\ opc = "input"
    /\ content = <<ToolUse("echo")>>
    /\ ret = Str(<<"Error executing tool ", "echo", ": ", "No tool response received">>)
    /\ result = None
    /\ backend_calls = 1
    /\ session_id = Str(<<"a">>)
    /\ tools = [t |-> "list", v |-> <<"echo">>]

\* C14: once connect_and_chat has been left, the reader task is no longer
\* running and connect_and_chat was left without an exception of the reader
\* task.
C14_TeardownClean ==
    (client = "sse" /\ opc \in {"exited", "exited_error"}) =>
        /\ sse_task \notin {"pending", "reading"}
        /\ opc = "exited"

\* C15: when the reader task has ended with no session identifier set (the
\* GET was answered with a status other than 200, the reader raised, or the
\* body ended), so that no endpoint event will ever be applied, the wait of
\* connect_and_chat for the session identifier eventually ends.
C15_WaitEnds ==
    (opc = "wait_sid" /\ ~Truthy(session_id) /\ sse_task \in {"raised", "finished"})
        ~> (opc # "wait_sid")

\* C16: while call_tool waits (for the answer to its POST or for a line of
\* the response), the step that takes the data line of a result event off
\* the push channel delivers its payload to the waiting call, which returns
\* it.
C16_ResultDeliveredToCall ==
    [][(client = "sse" /\ opc \in {"post", "scan"}
          /\ ReaderApplies("result") /\ IsJson(HeadPayload)) =>
           (result' = DenotedValue(HeadPayload) /\ opc' = "turn2")]_vars

\* A line of white space only.
IsBlank(l) == \A i \in 1..Len(l) : l[i] = WS

\* C17: a round of the reader's loop on a blank line resets the current
\* event type, so that a data line after it is not dispatched under the
\* event type that preceded the blank line.
C17_BlankLineResets ==
    [][(sse_task = "reading" /\ chan # <<>> /\ chan' = Tail(chan)
          /\ IsBlank(Head(chan)) /\ current_event # None) =>
           current_event' = None]_vars

\* C18: a round of the reader's loop on the data line of an event that is
\* neither an endpoint nor a tools event (an error event, its payload JSON or
\* not, or an event of a type the reader does not know) leaves the session
\* identifier and the catalog as they were and the reader reading.
C18_OtherEventsFrame ==
    [][(\E type \in EventTypes \ {"endpoint", "tools"} : ReaderApplies(type)) =>
           /\ session_id' = session_id
           /\ tools' = tools
           /\ sse_task' = "reading"]_vars

C18_Witness ==
    /\ sse_task = "reading"
    /\ current_event = Str(<<"error">>)
    /\ chan = <<Data(JCut)>>
    /\ session_id = Str(<<"a">>)
    /\ tools = [t |-> "list", v |-> <<"echo">>]

\* The tool descriptors with a name, a description and an input_schema.
Descriptors == {"echo", "add"}

\* C19: the catalog is at every moment a list of tool descriptors, each with
\* a name, a description and an input_schema.
C19_CatalogWellFormed ==
    /\ tools.t = "list"
    /\ \A i \in 1..Len(tools.v) : tools.v[i] \in Descriptors

\* C20: a query typed while the catalog is the empty list is answered with
\* the fixed message with no backend call and no tool call, and leaves the
\* session, the session identifier, the catalog and the reader as they were.
C20_NoToolsNoCall ==
    [][(/\ client = "sse" /\ opc = "input"
        /\ opc' \notin {"exited", "exited_error"}
        /\ chan' = chan /\ sse_open' = sse_open
        /\ tools = [t |-> "list", v |-> <<>>]) =>
           /\ ret' = Str(<<"Error: No tools available from MCP server yet. Please wait...">>)
           /\ backend_calls' = 0
           /\ posts' = <<>>
           /\ opc' = "input"
           /\ session' = session
           /\ session_id' = session_id
           /\ tools' = tools
           /\ sse_task' = sse_task
           /\ current_event' = current_event]_vars

C20_Witness ==
    /\ client = "sse"
    /\ opc = "input"
    /\ ret = Str(<<"Error: No tools available from MCP server yet. Please wait...">>)
    /\ tools = [t |-> "list", v |-> <<>>]
    /\ current_event = Str(<<"tools">>)
    /\ session_id = Str(<<"a">>)
    /\ backend_calls = 0
    /\ posts = <<>>

====
